---- MODULE Spec2Model ----
(***************************************************************************)
(* The Mergington High School activities API (src/src/app.py): the         *)
(* in-memory activity registry, the cookie session, and the login, logout, *)
(* signup and unregister handlers.                                         *)
(*                                                                         *)
(* Execution model.  login, logout and signup_for_activity are `async def` *)
(* coroutines without an await: the event loop runs one of them at a time. *)
(* get_activities and unregister_from_activity are plain `def` handlers:   *)
(* the framework runs each call on a thread of its pool, so several        *)
(* unregister calls run at once, and the interpreter may switch threads    *)
(* between a handler's membership test and its list mutation.  Each        *)
(* handler is therefore split at that one point, and nowhere else.         *)
(***************************************************************************)
EXTENDS Naturals, Sequences, Bags

\* ------------------------------------------------------------ bounds
\* Threads of the pool that serve unregister calls at the same time.
NumWorkers == 2
\* How many addresses of EmailPool requests may name.
NumEmails == 2
\* How many requests a behaviour may hold.
MaxRequests == 4
\* How many fresh students the enrolment drive of SpecFill may sign up.
NumFill == 9

\* ------------------------------------------------------------ values
\* Optional[str]: None is the empty set, a string s is {s}.
None == {}
Some(s) == {s}
\* Python truthiness of an Optional[str]: None and "" are falsy.
Truthy(o) == o # None /\ o # Some("")

\* ------------------------------------------------------------ users.json
\* The credential table load_users() returns: {"teachers": {username:
\* {"password": hash}}}.  The file is not part of the sources; two teachers
\* with non-empty usernames stand for its contents.
users ==
  [teachers |->
     [u \in {"mrodriguez", "schen"} |->
        [password |-> IF u = "mrodriguez" THEN "pbkdf2$art123" ELSE "pbkdf2$sci456"]]]

\* The hash werkzeug stores for a password, as a table: distinct passwords
\* have distinct hashes, and no hash is its password.
PasswordHash(password) ==
  CASE password = "art123" -> "pbkdf2$art123"
    [] password = "sci456" -> "pbkdf2$sci456"
    [] OTHER -> "pbkdf2$other"

check_password_hash(pwhash, password) == pwhash = PasswordHash(password)

verify_teacher(username, password) ==
  IF username \notin DOMAIN users.teachers
  THEN FALSE
  ELSE check_password_hash(users.teachers[username].password, password)

\* The session dependency of signup: the cookie itself when it is a teacher's
\* username (the table is read again on every call), None otherwise.
get_current_user(session) ==
  IF ~Truthy(session)
  THEN None
  ELSE IF \E u \in session : u \in DOMAIN users.teachers
       THEN session
       ELSE None

\* ------------------------------------------------------------ the registry
Activity(d, s, m, p) ==
  [description |-> d, schedule |-> s, max_participants |-> m, participants |-> p]

InitialActivities ==
  [n \in {"Chess Club", "Programming Class", "Gym Class", "Soccer Team",
          "Basketball Team", "Art Club", "Drama Club", "Math Club", "Debate Team"} |->
     CASE n = "Chess Club" ->
            Activity("Learn strategies and compete in chess tournaments",
                     "Fridays, 3:30 PM - 5:00 PM", 12,
                     <<"michael@mergington.edu", "daniel@mergington.edu">>)
       [] n = "Programming Class" ->
            Activity("Learn programming fundamentals and build software projects",
                     "Tuesdays and Thursdays, 3:30 PM - 4:30 PM", 20,
                     <<"emma@mergington.edu", "sophia@mergington.edu">>)
       [] n = "Gym Class" ->
            Activity("Physical education and sports activities",
                     "Mondays, Wednesdays, Fridays, 2:00 PM - 3:00 PM", 30,
                     <<"john@mergington.edu", "olivia@mergington.edu">>)
       [] n = "Soccer Team" ->
            Activity("Join the school soccer team and compete in matches",
                     "Tuesdays and Thursdays, 4:00 PM - 5:30 PM", 22,
                     <<"liam@mergington.edu", "noah@mergington.edu">>)
       [] n = "Basketball Team" ->
            Activity("Practice and play basketball with the school team",
                     "Wednesdays and Fridays, 3:30 PM - 5:00 PM", 15,
                     <<"ava@mergington.edu", "mia@mergington.edu">>)
       [] n = "Art Club" ->
            Activity("Explore your creativity through painting and drawing",
                     "Thursdays, 3:30 PM - 5:00 PM", 15,
                     <<"amelia@mergington.edu", "harper@mergington.edu">>)
       [] n = "Drama Club" ->
            Activity("Act, direct, and produce plays and performances",
                     "Mondays and Wednesdays, 4:00 PM - 5:30 PM", 20,
                     <<"ella@mergington.edu", "scarlett@mergington.edu">>)
       [] n = "Math Club" ->
            Activity("Solve challenging problems and participate in math competitions",
                     "Tuesdays, 3:30 PM - 4:30 PM", 10,
                     <<"james@mergington.edu", "benjamin@mergington.edu">>)
       [] OTHER ->
            Activity("Develop public speaking and argumentation skills",
                     "Fridays, 4:00 PM - 5:30 PM", 12,
                     <<"charlotte@mergington.edu", "henry@mergington.edu">>)]

\* ------------------------------------------------------------ list operations
\* Python's `x in list`.
InList(x, list) == \E i \in 1..Len(list) : list[i] = x

\* The mutant of ListAppend: insert(0, x), the new element goes to the front.
ListAppend_Front(list, x) == <<x>> \o list

\* Python's list.append(x).
ListAppend(list, x) == Append(list, x)

\* The index of the first element equal to x (x is in the list).
FirstIndex(list, x) == CHOOSE i \in 1..Len(list) :
                          list[i] = x /\ \A j \in 1..(i - 1) : list[j] # x

\* Python's list.remove(x) when x is in the list: the first match goes, the
\* rest keeps its order.  (When x is not in the list it raises ValueError.)
ListRemove(list, x) ==
  LET k == FirstIndex(list, x)
  IN  [i \in 1..(Len(list) - 1) |-> IF i < k THEN list[i] ELSE list[i + 1]]

\* ------------------------------------------------------------ request inputs
EmailPool == <<"michael@mergington.edu", "new@mergington.edu",
               "daniel@mergington.edu", "emma@mergington.edu",
               "x@mergington.edu">>
ReqEmails ==
  {EmailPool[i] : i \in 1..(IF NumEmails < Len(EmailPool) THEN NumEmails ELSE Len(EmailPool))}
ReqNames == {"Chess Club", "Unknown Club"}
\* The cookie a hand-made request carries: none, empty, a teacher's
\* username, some other string.
ReqSessions == {None, Some(""), Some("mrodriguez"), Some("student")}
ReqUsernames == {"mrodriguez", "schen", "student"}
ReqPasswords == {"art123", "sci456"}

\* ------------------------------------------------------------ state
VARIABLES
  activities,   \* the module-level dict `activities`
  cookie,       \* the browser's cookie jar: the value of cookie "session"
  loopPc,       \* where the event loop's signup coroutine stands
  loopReq,      \* the signup request the event loop is serving
  removing,     \* the bag of unregister requests whose pool thread stands
                \* between the membership test and the remove
  last,         \* the response sent last, with the registry it acted on
  nreq          \* the number of requests received

vars == <<activities, cookie, loopPc, loopReq, removing, last, nreq>>

Participants(acts) == [n \in DOMAIN acts |-> acts[n].participants]

\* A request: who sent it, the cookie it carries, and its parameters (the
\* path's activity_name and the query's email, or the login form's fields).
Request(client, session, activity_name, email) ==
  [client |-> client, session |-> session,
   activity_name |-> activity_name, email |-> email,
   username |-> "", password |-> ""]

LoginRequest(session, username, password) ==
  [client |-> "browser", session |-> session,
   activity_name |-> "", email |-> "",
   username |-> username, password |-> password]

NoReq == Request("", None, "", "")

\* A response: the request it answers, its HTTP status, and the participants
\* of every activity as they stood when the handler's last step began.
Response(op, r, status, acts) ==
  [op |-> op, client |-> r.client, session |-> r.session,
   activity_name |-> r.activity_name, email |-> r.email,
   username |-> r.username, password |-> r.password,
   status |-> status, before |-> Participants(acts)]

Init ==
  /\ activities = InitialActivities
  /\ cookie = None
  /\ loopPc = "idle"
  /\ loopReq = NoReq
  /\ removing = EmptyBag
  /\ last = Response("none", NoReq, 0, InitialActivities)
  /\ nreq = 0

\* ------------------------------------------------------------ login, logout
\* POST /api/login, sent by the browser: on success the response sets the
\* cookie "session" to the username, and the browser stores it.
login(username, password) ==
  /\ loopPc = "idle"
  /\ IF verify_teacher(username, password)
     THEN /\ cookie' = Some(username)
          /\ last' = Response("login", LoginRequest(cookie, username, password), 200, activities)
     ELSE /\ cookie' = cookie
          /\ last' = Response("login", LoginRequest(cookie, username, password), 401, activities)
  /\ nreq' = nreq + 1
  /\ UNCHANGED <<activities, loopPc, loopReq, removing>>

\* The mutant of logout: the response does not delete the cookie.
logout_KeepCookie ==
  /\ loopPc = "idle"
  /\ cookie' = cookie
  /\ last' = Response("logout", Request("browser", cookie, "", ""), 200, activities)
  /\ nreq' = nreq + 1
  /\ UNCHANGED <<activities, loopPc, loopReq, removing>>

\* POST /api/logout, sent by the browser: the response deletes the cookie.
logout ==
  /\ loopPc = "idle"
  /\ cookie' = None
  /\ last' = Response("logout", Request("browser", cookie, "", ""), 200, activities)
  /\ nreq' = nreq + 1
  /\ UNCHANGED <<activities, loopPc, loopReq, removing>>

\* GET /activities.
get_activities ==
  /\ last' = Response("get_activities", Request("other", None, "", ""), 200, activities)
  /\ nreq' = nreq + 1
  /\ UNCHANGED <<activities, cookie, loopPc, loopReq, removing>>

\* ------------------------------------------------------------ signup
\* The mutant of SignupCheck: the activity is looked up before the session.
SignupCheck_ActivityFirst(acts, current_user, activity_name, email) ==
  IF activity_name \notin DOMAIN acts THEN 404
  ELSE IF ~Truthy(current_user) THEN 401
  ELSE IF InList(email, acts[activity_name].participants) THEN 400
  ELSE 0

\* The mutant of SignupCheck without the membership test.
SignupCheck_NoDuplicateTest(acts, current_user, activity_name, email) ==
  IF ~Truthy(current_user) THEN 401
  ELSE IF activity_name \notin DOMAIN acts THEN 404
  ELSE 0

\* The mutant of SignupCheck: a full activity refuses the signup.
SignupCheck_Capacity(acts, current_user, activity_name, email) ==
  IF ~Truthy(current_user) THEN 401
  ELSE IF activity_name \notin DOMAIN acts THEN 404
  ELSE IF InList(email, acts[activity_name].participants) THEN 400
  ELSE IF Len(acts[activity_name].participants) >= acts[activity_name].max_participants
       THEN 400
  ELSE 0

\* The status signup_for_activity raises before it mutates, or 0 when it
\* goes on to the append.
SignupCheck(acts, current_user, activity_name, email) ==
  IF ~Truthy(current_user) THEN 401
  ELSE IF activity_name \notin DOMAIN acts THEN 404
  ELSE IF InList(email, acts[activity_name].participants) THEN 400
  ELSE 0

\* The registry after activity["participants"].append(email).
SignupApply(acts, activity_name, email) ==
  [acts EXCEPT ![activity_name].participants = ListAppend(@, email)]

\* POST /activities/{activity_name}/signup up to the append: the session
\* dependency, then the handler's three validations.
SignupStart(client, session, activity_name, email) ==
  /\ loopPc = "idle"
  /\ LET r == Request(client, session, activity_name, email)
         status == SignupCheck(activities, get_current_user(session), activity_name, email)
     IN  IF status # 0
         THEN /\ last' = Response("signup", r, status, activities)
              /\ UNCHANGED <<loopPc, loopReq>>
         ELSE /\ loopPc' = "append"
              /\ loopReq' = r
              /\ UNCHANGED last
  /\ nreq' = nreq + 1
  /\ UNCHANGED <<activities, cookie, removing>>

\* The append and the 200 response.
SignupAppend ==
  /\ loopPc = "append"
  /\ activities' = SignupApply(activities, loopReq.activity_name, loopReq.email)
  /\ last' = Response("signup", loopReq, 200, activities)
  /\ loopPc' = "idle"
  /\ loopReq' = NoReq
  /\ UNCHANGED <<cookie, removing, nreq>>

\* ------------------------------------------------------------ unregister
\* The mutant of UnregisterCheck: the teacher session is required.
UnregisterCheck_Auth(acts, session, activity_name, email) ==
  IF ~Truthy(get_current_user(session)) THEN 401
  ELSE IF activity_name \notin DOMAIN acts THEN 404
  ELSE IF ~InList(email, acts[activity_name].participants) THEN 400
  ELSE 0

\* The mutant of UnregisterCheck without the activity test: the lookup of
\* an unknown activity raises KeyError, a 500.
UnregisterCheck_NoActivityTest(acts, session, activity_name, email) ==
  IF activity_name \notin DOMAIN acts THEN 500
  ELSE IF ~InList(email, acts[activity_name].participants) THEN 400
  ELSE 0

\* The status unregister_from_activity raises before it mutates, or 0 when
\* it goes on to the remove.  The request's cookie is not read.
UnregisterCheck(acts, session, activity_name, email) ==
  IF activity_name \notin DOMAIN acts THEN 404
  ELSE IF ~InList(email, acts[activity_name].participants) THEN 400
  ELSE 0

\* The mutant of UnregisterApply: pop(0) instead of remove(email).
UnregisterApply_First(acts, activity_name, email) ==
  [acts EXCEPT ![activity_name].participants = Tail(@)]

\* The registry after activity["participants"].remove(email).
UnregisterApply(acts, activity_name, email) ==
  [acts EXCEPT ![activity_name].participants = ListRemove(@, email)]

\* DELETE /activities/{activity_name}/unregister up to the remove, on a
\* free thread of the pool.
UnregisterStart(session, activity_name, email) ==
  /\ BagCardinality(removing) < NumWorkers
  /\ LET r == Request("other", session, activity_name, email)
         status == UnregisterCheck(activities, session, activity_name, email)
     IN  IF status # 0
         THEN /\ last' = Response("unregister", r, status, activities)
              /\ UNCHANGED removing
         ELSE /\ removing' = removing (+) SetToBag({r})
              /\ UNCHANGED last
  /\ nreq' = nreq + 1
  /\ UNCHANGED <<activities, cookie, loopPc, loopReq>>

\* The remove and the 200 response; list.remove raises ValueError when the
\* email has gone in the meantime, which the server answers with 500.
UnregisterRemove(r) ==
  /\ BagIn(r, removing)
  /\ IF InList(r.email, activities[r.activity_name].participants)
     THEN /\ activities' = UnregisterApply(activities, r.activity_name, r.email)
          /\ last' = Response("unregister", r, 200, activities)
     ELSE /\ activities' = activities
          /\ last' = Response("unregister", r, 500, activities)
  /\ removing' = removing (-) SetToBag({r})
  /\ UNCHANGED <<cookie, loopPc, loopReq, nreq>>

\* ------------------------------------------------------------ specification
Clients == {"browser", "other"}

\* Requests arrive in any order and number (up to MaxRequests); the event
\* loop and the pool threads take their steps in any interleaving.
Next ==
  \/ \E u \in ReqUsernames, p \in ReqPasswords : nreq < MaxRequests /\ login(u, p)
  \/ nreq < MaxRequests /\ logout
  \/ nreq < MaxRequests /\ get_activities
  \/ \E n \in ReqNames, e \in ReqEmails :
       nreq < MaxRequests /\ SignupStart("browser", cookie, n, e)
  \/ \E s \in ReqSessions, n \in ReqNames, e \in ReqEmails :
       nreq < MaxRequests /\ SignupStart("other", s, n, e)
  \/ SignupAppend
  \/ \E s \in ReqSessions, n \in ReqNames, e \in ReqEmails :
       nreq < MaxRequests /\ UnregisterStart(s, n, e)
  \/ \E r \in BagToSet(removing) : UnregisterRemove(r)

Spec == Init /\ [][Next]_vars

\* An enrolment drive: a teacher logs in with the browser and signs up the
\* students of FillPool for the Math Club one after the other, while the two
\* initial members may be unregistered.
FillPool == <<"s01@mergington.edu", "s02@mergington.edu", "s03@mergington.edu",
              "s04@mergington.edu", "s05@mergington.edu", "s06@mergington.edu",
              "s07@mergington.edu", "s08@mergington.edu", "s09@mergington.edu",
              "s10@mergington.edu", "s11@mergington.edu", "s12@mergington.edu">>
FillCount == IF NumFill < Len(FillPool) THEN NumFill ELSE Len(FillPool)
FillActivity == "Math Club"
FillInitial == {"james@mergington.edu", "benjamin@mergington.edu"}
\* The first student of the pool who is not enrolled is the next to sign up.
NextToFill(i) ==
  /\ ~InList(FillPool[i], activities[FillActivity].participants)
  /\ \A j \in 1..(i - 1) : InList(FillPool[j], activities[FillActivity].participants)

NextFill ==
  \/ nreq < FillCount + 2 /\ login("mrodriguez", "art123")
  \/ \E i \in 1..FillCount :
       nreq < FillCount + 2 /\ NextToFill(i)
         /\ SignupStart("browser", cookie, FillActivity, FillPool[i])
  \/ SignupAppend
  \/ \E s \in {None, Some("mrodriguez")}, e \in FillInitial :
       nreq < FillCount + 2 /\ UnregisterStart(s, FillActivity, e)
  \/ \E r \in BagToSet(removing) : UnregisterRemove(r)

SpecFill == Init /\ [][NextFill]_vars

\* ------------------------------------------------------------ properties
Teachers == DOMAIN users.teachers
\* A cookie that is absent, empty, or no teacher's username.
NoValidSession(session) ==
  session = None \/ session = Some("") \/ \A u \in session : u \notin Teachers
Chess == activities["Chess Club"].participants
NoDuplicates(list) == \A i, j \in 1..Len(list) : list[i] = list[j] => i = j
Elements(list) == {list[i] : i \in 1..Len(list)}
\* a stands before b in the list.
Precedes(list, a, b) == \E i, j \in 1..Len(list) : i < j /\ list[i] = a /\ list[j] = b
AnySession == ReqSessions \cup {cookie}

\* C1: a signup is answered 401 exactly when its cookie is absent, empty or no
\* teacher's username, whatever the activity name and the email.
C1_UnauthorizedIffNoValidSession ==
  last.op = "signup" => (last.status = 401 <=> NoValidSession(last.session))

C1_Witness ==
  /\ last.op = "signup" /\ last.status = 401
  /\ last.session = Some("student")
  /\ last.activity_name \notin DOMAIN activities

\* C2 as stated: every signup and every unregister that names an activity
\* outside the registry is answered 404.
C2_Original ==
  (last.op \in {"signup", "unregister"} /\ last.activity_name \notin DOMAIN activities)
    => last.status = 404

\* C2 as amended: an unregister that names an activity outside the registry
\* is answered 404; a signup that does is answered 404 when it carries a
\* teacher's session, and 401 when it does not.
C2_NotFound ==
  last.activity_name \notin DOMAIN activities =>
    /\ last.op = "unregister" => last.status = 404
    /\ last.op = "signup" =>
         last.status = (IF NoValidSession(last.session) THEN 401 ELSE 404)

C2_Witness ==
  /\ last.activity_name \notin DOMAIN activities
  /\ last.op = "unregister" /\ last.status = 404

\* C3: in every reachable state no activity lists an email twice.
C3_ParticipantsUnique ==
  \A n \in DOMAIN activities : NoDuplicates(activities[n].participants)

C3_Witness ==
  /\ last.op = "signup" /\ last.status = 400
  /\ last.email = "new@mergington.edu"
  /\ Chess = <<"michael@mergington.edu", "daniel@mergington.edu", "new@mergington.edu">>

\* C4: when a signup has just succeeded, a signup of the same email for the
\* same activity with a teacher's session is answered 400 and leaves the
\* registry as the first signup left it.
C4_SecondSignupRejected ==
  [][\A c \in Clients, s \in AnySession :
       (/\ last.op = "signup" /\ last.status = 200
        /\ ~NoValidSession(s)
        /\ SignupStart(c, s, last.activity_name, last.email))
       => /\ last'.op = "signup" /\ last'.status = 400
          /\ last'.activity_name = last.activity_name /\ last'.email = last.email
          /\ loopPc' = "idle"
          /\ activities' = activities
          /\ activities[last.activity_name].participants =
               Append(last.before[last.activity_name], last.email)]_vars

C4_Witness ==
  /\ nreq = 2
  /\ last.op = "signup" /\ last.status = 400
  /\ last.email = "new@mergington.edu"
  /\ Chess = <<"michael@mergington.edu", "daniel@mergington.edu", "new@mergington.edu">>
  /\ last.before["Chess Club"] = Chess

\* C5: when a signup has just succeeded, an unregister of the same email from
\* the same activity is not refused, and its remove gives every activity the
\* participants it had before the signup, in the same order.
C5_SignupUnregisterRoundTrip ==
  [][/\ \A s \in AnySession :
          (/\ last.op = "signup" /\ last.status = 200
           /\ UnregisterStart(s, last.activity_name, last.email))
          => /\ last' = last
             /\ BagCardinality(removing') = BagCardinality(removing) + 1
     /\ \A r \in BagToSet(removing) :
          (/\ last.op = "signup" /\ last.status = 200
           /\ r.activity_name = last.activity_name /\ r.email = last.email
           /\ UnregisterRemove(r))
          => /\ last'.op = "unregister" /\ last'.status = 200
             /\ Participants(activities') = last.before]_vars

C5_Witness ==
  /\ nreq = 2
  /\ last.op = "unregister" /\ last.status = 200
  /\ last.email = "new@mergington.edu"
  /\ last.before["Chess Club"] =
       <<"michael@mergington.edu", "daniel@mergington.edu", "new@mergington.edu">>
  /\ Participants(activities) = Participants(InitialActivities)

\* C6: no step changes the relative order of two participants that stay, and
\* a participant that a step adds stands after all that were there: a signup
\* appends, an unregister takes one element out and moves no other.
C6_ArrivalOrder ==
  [][\A n \in DOMAIN activities :
       LET old == activities[n].participants
           new == activities'[n].participants
       IN  new # old =>
           /\ \A a, b \in Elements(old) \cap Elements(new) :
                Precedes(new, a, b) <=> Precedes(old, a, b)
           /\ \A a \in Elements(old) \cap Elements(new), b \in Elements(new) \ Elements(old) :
                Precedes(new, a, b)
           /\ Len(new) > Len(old) =>
                \E e \in Elements(new) \ Elements(old) : new = Append(old, e)
           /\ Len(new) < Len(old) =>
                /\ Len(new) = Len(old) - 1
                /\ Elements(new) \subseteq Elements(old)]_vars

C6_Witness ==
  Chess = <<"daniel@mergington.edu", "new@mergington.edu", "michael@mergington.edu">>

\* C7: an unregister is never answered 401 and its answer does not depend on
\* its cookie: 404 for an unknown activity; 200, with the email removed, when
\* the email is enrolled as the remove runs; and in every reachable state the
\* handler's decision is the same for every cookie.
C7_UnregisterIgnoresSession ==
  /\ last.op = "unregister" =>
       /\ last.status # 401
       /\ last.activity_name \notin DOMAIN activities => last.status = 404
       /\ (/\ last.activity_name \in DOMAIN activities
           /\ InList(last.email, last.before[last.activity_name]))
          => /\ last.status = 200
             /\ activities[last.activity_name].participants =
                  ListRemove(last.before[last.activity_name], last.email)
       /\ last.status = 200 => InList(last.email, last.before[last.activity_name])
  /\ \A s1, s2 \in ReqSessions, n \in ReqNames, e \in ReqEmails :
       UnregisterCheck(activities, s1, n, e) = UnregisterCheck(activities, s2, n, e)

C7_Witness ==
  /\ last.op = "unregister" /\ last.status = 200
  /\ last.session = None
  /\ last.activity_name = "Chess Club" /\ last.email = "michael@mergington.edu"
  /\ ~InList("michael@mergington.edu", Chess)

\* C8: a signup with a teacher's session, for an activity of the registry and
\* an email not enrolled in it, succeeds and adds one participant, however
\* many participants there are: 400 answers an enrolled email only.
C8_NoCapacityCheck ==
  last.op = "signup" =>
    /\ last.status = 200 <=>
         /\ ~NoValidSession(last.session)
         /\ last.activity_name \in DOMAIN activities
         /\ ~InList(last.email, last.before[last.activity_name])
    /\ last.status = 200 =>
         Len(activities[last.activity_name].participants) =
           Len(last.before[last.activity_name]) + 1

C8_Witness ==
  /\ last.op = "signup" /\ last.status = 200
  /\ Len(last.before[last.activity_name]) >= activities[last.activity_name].max_participants
  /\ Len(activities[last.activity_name].participants) >
       activities[last.activity_name].max_participants

\* C9: a login sets the browser's cookie to the username exactly when the
\* username is a teacher's and the password hashes to the stored hash, and
\* otherwise is answered 401 and leaves the cookie; a signup the browser
\* sends is answered 401 exactly when it holds no cookie; a logout deletes
\* the cookie; and only a successful login gives the browser a cookie.
C9_SessionLifecycle ==
  [][/\ LET u == last'.username
             p == last'.password
         IN  login(u, p) =>
               IF u \in Teachers /\ users.teachers[u].password = PasswordHash(p)
               THEN last'.status = 200 /\ cookie' = Some(u)
               ELSE last'.status = 401 /\ cookie' = cookie
     /\ \A r \in {last', loopReq'} :
          SignupStart("browser", cookie, r.activity_name, r.email) =>
            IF cookie = None
            THEN last'.op = "signup" /\ last'.status = 401 /\ last'.session = None
            ELSE loopPc' = "append" \/ (last'.op = "signup" /\ last'.status \in {400, 404})
     /\ logout => cookie' = None
     /\ cookie' # cookie =>
          \/ last'.op = "logout" /\ cookie' = None
          \/ last'.op = "login" /\ last'.status = 200 /\ cookie' = Some(last'.username)
     /\ cookie' = None \/ cookie' \subseteq Teachers]_vars

C9_Witness ==
  /\ last.op = "logout" /\ last.status = 200
  /\ last.session = Some("schen")
  /\ cookie = None

\* C10 as stated: every unregister ends with success (200), NotFound (404) or
\* NotRegistered (400), whatever the interleaving of concurrent unregisters.
C10_Original ==
  last.op = "unregister" => last.status \in {200, 400, 404}

====
